---- MODULE Spec2Model ----
(***************************************************************************)
(* A model of two operators of the vectorized PromQL engine:               *)
(*   - the number-literal selector (package scan), and                     *)
(*   - the vector binary operator (package binary).                        *)
(* Each operator is a state machine driven by calls of Series and Next.    *)
(***************************************************************************)
EXTENDS Integers, Sequences, FiniteSets, TLC

\* ------------------------------------------------------------------------
\* Bounds of the model
\* ------------------------------------------------------------------------
\* mint and maxt range over 0..MaxT
MaxT == 3
\* step ranges over 0..MaxStep (0 is an instant query)
MaxStep == 2
\* stepsBatch ranges over 1..MaxBatch
MaxBatch == 3

\* The history of emitted timestamps keeps at most EmitCap entries; a range
\* query over 0..MaxT emits at most MaxT + 1 timestamps.
EmitCap == MaxT + 2

\* Sample values of the literal, and the wrapping calls tried.
Vals == {1, 2}
Calls == {"nil", "neg", "time"}

VARIABLES
  sel,         \* the numberLiteralSelector struct
  selOut,      \* what the last call on the selector returned
  selHeld,     \* the consumer holds a batch it has not yet given back
  selEmitted,  \* timestamps of all step vectors emitted so far, in order
  selEos,      \* some Next call has returned an empty batch
  bin,         \* the vectorOperator struct (with its pool's step size)
  binIn,       \* what the children's Series returned to initOutputs
  binOut,      \* what the last call on the binary operator did and returned
  binFirst,    \* the outcome of the first Series call on the binary operator
  binInits,    \* how many times the body of initOutputs has run
  race,        \* a vectorOperator shared by two concurrent callers
  racePc,      \* where each of the two callers stands
  raceLoc,     \* each caller's local variables
  raceRet      \* what each caller read and returned

selVars == <<sel, selOut, selHeld, selEmitted, selEos>>
binVars == <<bin, binIn, binOut, binFirst, binInits>>
raceVars == <<race, racePc, raceLoc, raceRet>>
vars == <<sel, selOut, selHeld, selEmitted, selEos,
          bin, binIn, binOut, binFirst, binInits,
          race, racePc, raceLoc, raceRet>>

\* ------------------------------------------------------------------------
\* Helpers
\* ------------------------------------------------------------------------
Min(a, b) == IF a <= b THEN a ELSE b

\* Go's integer division truncates toward zero.
GoDiv(a, b) ==
  IF b = 0 THEN 0
  ELSE IF (a >= 0) = (b > 0)
       THEN (IF a >= 0 THEN a ELSE -a) \div (IF b > 0 THEN b ELSE -b)
       ELSE -((IF a >= 0 THEN a ELSE -a) \div (IF b > 0 THEN b ELSE -b))

\* ------------------------------------------------------------------------
\* The vector pool (model.VectorPool), as the operators use it
\* ------------------------------------------------------------------------
\* GetVectorBatch: an empty batch.
GetVectorBatch == <<>>

\* GetStepVector(t): a step vector with t set and no samples.
GetStepVector(t) == [T |-> t, SampleIDs |-> <<>>, Samples |-> <<>>]

\* ------------------------------------------------------------------------
\* numberLiteralSelector
\* ------------------------------------------------------------------------
\* series as left by make([]labels.Labels, 1): one nil label set
NilSeries == <<[isNil |-> TRUE, lbls |-> {}]>>
\* series as left by []labels.Labels{labels.New()}: one empty label set
EmptySeries == <<[isNil |-> FALSE, lbls |-> {}]>>

NewNumberLiteralSelector(mint, maxt, step, stepsBatch, val, call) ==
  [ mint        |-> mint,
    maxt        |-> maxt,
    step        |-> step,
    currentStep |-> mint,
    stepsBatch  |-> stepsBatch,
    series      |-> <<>>,
    once        |-> FALSE,
    val         |-> val,
    call        |-> call ]

\* loadSeries: a one-shot initialisation of o.series
loadSeries(o) ==
  IF o.once THEN o
  ELSE [o EXCEPT !.once = TRUE,
                 !.series = IF o.call # "nil" THEN EmptySeries ELSE NilSeries]

\* A wrapping FunctionCall applied to the point (ts, v) at step time ts.
CallSample(call, v, ts) ==
  CASE call = "neg"  -> [T |-> ts, V |-> 0 - v]
    [] call = "time" -> [T |-> ts, V |-> ts]
    [] OTHER         -> [T |-> ts, V |-> v]

\* The sample of one step: the literal, passed through the call if there is one.
StepSample_IgnoreCall(o, ts) == [T |-> ts, V |-> o.val]
StepSample(o, ts) ==
  IF o.call # "nil" THEN CallSample(o.call, o.val, ts)
  ELSE [T |-> ts, V |-> o.val]

\* The early return of Next: the selector is past its range.
AtEnd_Never(o) == FALSE
AtEnd(o) == o.currentStep > o.maxt

TotalSteps(o) ==
  IF o.step # 0 THEN GoDiv(o.maxt - o.mint, o.step) + 1 ELSE 1

NumSteps_NoCap(o) == TotalSteps(o)
NumSteps(o) == Min(o.stepsBatch, TotalSteps(o))

LoopCond_Strict(o, currStep, numSteps, ts) == currStep < numSteps /\ ts < o.maxt
LoopCond(o, currStep, numSteps, ts) == currStep < numSteps /\ ts <= o.maxt

\* One iteration of the loop body on the batch `vectors` at index currStep
\* (0-based): returns the batch and the number of step vectors taken from
\* the pool.
StepID == 0

LoopBody(o, st, currStep, ts) ==
  LET grown  == Len(st.vectors) <= currStep
      vs     == IF grown THEN Append(st.vectors, GetStepVector(ts)) ELSE st.vectors
      result == StepSample(o, ts)
  IN [ vectors |-> [vs EXCEPT ![currStep + 1] =
                      [ T         |-> result.T,
                        SampleIDs |-> Append(@.SampleIDs, StepID),
                        Samples   |-> Append(@.Samples, result.V) ]],
       vecGets |-> st.vecGets + (IF grown THEN 1 ELSE 0) ]

RECURSIVE Loop(_, _, _, _, _)
Loop(o, st, currStep, numSteps, ts) ==
  IF LoopCond(o, currStep, numSteps, ts)
  THEN Loop(o, LoopBody(o, st, currStep, ts), currStep + 1, numSteps, ts + o.step)
  ELSE st

\* Next: the operator after the call and what the call returned.
selNext(o) ==
  IF AtEnd(o)
  THEN [ o   |-> o,
         out |-> [op |-> "Next", batch |-> <<>>, series |-> <<>>, err |-> "nil",
                  batchGets |-> 0, vecGets |-> 0] ]
  ELSE LET o1       == loadSeries(o)
           numSteps == NumSteps(o1)
           st       == Loop(o1, [vectors |-> GetVectorBatch, vecGets |-> 0],
                            0, numSteps, o1.currentStep)
       IN [ o   |-> [o1 EXCEPT !.currentStep = @ + o1.step * numSteps],
            out |-> [op |-> "Next", batch |-> st.vectors, series |-> <<>>,
                     err |-> "nil", batchGets |-> 1, vecGets |-> st.vecGets] ]

\* Series: loads the series and returns them.
selSeries(o) ==
  LET o1 == loadSeries(o)
  IN [ o   |-> o1,
       out |-> [op |-> "Series", batch |-> <<>>, series |-> o1.series,
                err |-> "nil", batchGets |-> 0, vecGets |-> 0] ]

\* ------------------------------------------------------------------------
\* The selector's state machine
\* ------------------------------------------------------------------------
NoCall == [op |-> "none", batch |-> <<>>, series |-> <<>>, err |-> "nil",
           batchGets |-> 0, vecGets |-> 0]

RECURSIVE Timestamps(_)
Timestamps(batch) ==
  IF batch = <<>> THEN <<>> ELSE <<Head(batch).T>> \o Timestamps(Tail(batch))

\* The history keeps the first EmitCap timestamps.
Record(hist, batch) ==
  LET all == hist \o Timestamps(batch)
  IN IF Len(all) <= EmitCap THEN all ELSE SubSeq(all, 1, EmitCap)

SelInit ==
  /\ \E mint \in 0..MaxT, maxt \in 0..MaxT, step \in 0..MaxStep,
        stepsBatch \in 1..MaxBatch, val \in Vals, call \in Calls :
       sel = NewNumberLiteralSelector(mint, maxt, step, stepsBatch, val, call)
  /\ selOut = NoCall
  /\ selHeld = FALSE
  /\ selEmitted = <<>>
  /\ selEos = FALSE

\* The consumer calls Next.
SelNext ==
  /\ ~selHeld
  /\ LET r == selNext(sel)
     IN /\ sel' = r.o
        /\ selOut' = r.out
        /\ selHeld' = (r.out.batch # <<>>)
        /\ selEmitted' = Record(selEmitted, r.out.batch)
        /\ selEos' = (selEos \/ r.out.batch = <<>>)
  /\ UNCHANGED <<binVars, raceVars>>

\* The consumer calls Series.
SelSeries ==
  /\ LET r == selSeries(sel)
     IN /\ sel' = r.o
        /\ selOut' = r.out
  /\ UNCHANGED <<selHeld, selEmitted, selEos>>
  /\ UNCHANGED <<binVars, raceVars>>

\* The consumer is done with the batch it holds and gives it back.
SelConsume ==
  /\ selHeld
  /\ selHeld' = FALSE
  /\ UNCHANGED <<sel, selOut, selEmitted, selEos>>
  /\ UNCHANGED <<binVars, raceVars>>


\* ------------------------------------------------------------------------
\* Label sets (labels.Labels): sets of <<name, value>> pairs, names unique
\* ------------------------------------------------------------------------
MetricName == "__name__"

Range(seq) == {seq[i] : i \in DOMAIN seq}

\* labels.Builder: Del removes the names, Keep removes all other names.
Del(lbls, names) == {p \in lbls : p[1] \notin names}
Keep(lbls, names) == {p \in lbls : p[1] \in names}

\* The hashes are taken to be free of collisions: a hash stands for the
\* labels it was computed from.
HashWithoutLabels(metric, names) ==
  <<"hash", {p \in metric : p[1] \notin (names \cup {MetricName})}>>
HashForLabels(metric, names) == <<"hash", {p \in metric : p[1] \in names}>>
\* the signature 0 returned for an empty on() list
ZeroKey == <<"zero", {}>>

\* ------------------------------------------------------------------------
\* vectorOperator: initialisation
\* ------------------------------------------------------------------------
\* a nil *uint64 in highCardOutputIndex
NilID == 0 - 1

\* labels.NewBuilder(metric).Del(labels.MetricName)
NewBuilderDel_KeepName(metric) == metric
NewBuilderDel(metric) == Del(metric, {MetricName})

signature(metric, without, grouping, keepLabels) ==
  LET lb == NewBuilderDel(metric)
  IN IF without
     THEN LET dropLabels == Range(grouping) \cup {MetricName}
          IN [ key  |-> HashWithoutLabels(metric, dropLabels),
               lbls |-> IF ~keepLabels THEN Del(lb, dropLabels) ELSE lb ]
     ELSE LET kept == IF keepLabels THEN Keep(lb, Range(grouping)) ELSE lb
          IN IF Len(grouping) = 0
             THEN [key |-> ZeroKey, lbls |-> kept]
             ELSE [key |-> HashForLabels(metric, Range(grouping)), lbls |-> kept]

\* The ids (1-based positions) of the signatures sgs that equal k, in order.
idsOf(sgs, k) ==
  SelectSeq([i \in 1..Len(sgs) |-> i], LAMBDA i : sgs[i].key = k)

\* The buckets of hashSeries for the signatures sgs of the series.
buckets(sgs, sigs) ==
  [ hashes     |-> [k \in sigs |->
                      [j \in 1..Len(idsOf(sgs, k)) |->
                         [ID |-> idsOf(sgs, k)[j] - 1,
                          Metric |-> sgs[idsOf(sgs, k)[j]].lbls]]],
    inputIndex |-> [k \in sigs |->
                      [j \in 1..Len(idsOf(sgs, k)) |-> idsOf(sgs, k)[j] - 1]] ]

signatures(matching, series, keepLabels) ==
  [i \in 1..Len(series) |->
     signature(series[i], ~matching.On, matching.MatchingLabels, keepLabels)]

keysOf(sgs) == {sgs[i].key : i \in 1..Len(sgs)}

bucketsOf(sgs) == buckets(sgs, keysOf(sgs))

\* hashSeries: per signature, the series (0-based ID, labels) and the input
\* ids that carry it, both in input order.
hashSeries(matching, series, keepLabels) ==
  bucketsOf(signatures(matching, series, keepLabels))

RECURSIVE SumLen(_, _)
SumLen(hashes, keys) ==
  IF keys = {} THEN 0
  ELSE LET k == CHOOSE x \in keys : TRUE
       IN Len(hashes[k]) + SumLen(hashes, keys \ {k})

\* The id of the next output series: uint64(len(outputIndex)).
NextOutputID_FromOne(outputIndex) == Len(outputIndex) + 1
NextOutputID(outputIndex) == Len(outputIndex)

\* The inner loop of join over the series of one signature.
RECURSIVE joinBucket(_, _, _, _, _)
joinBucket(st, outputSeries, highIDs, lowCardSeriesID, i) ==
  IF i > Len(outputSeries) THEN st
  ELSE LET id == NextOutputID(st.outputIndex)
       IN joinBucket(
            [ outputIndex |-> Append(st.outputIndex,
                                     [ID |-> id, Metric |-> outputSeries[i].Metric]),
              high  |-> [st.high EXCEPT ![highIDs[i]] = id],
              low   |-> [st.low EXCEPT ![lowCardSeriesID] = Append(@, id)],
              panic |-> st.panic ],
            outputSeries, highIDs, lowCardSeriesID, i + 1)

\* The outer loop of join, visiting the surviving signatures in `order` (the
\* iteration order of a Go map is not specified).
RECURSIVE joinLoop(_, _, _, _, _, _)
joinLoop(st, order, highCardHashes, highCardInputIndex, lowCardInputIndex, outputSize) ==
  IF order = <<>> THEN st
  ELSE LET hash == Head(order)
           lowCardSeriesID == lowCardInputIndex[hash][1]
       IN IF lowCardSeriesID >= outputSize
          THEN [st EXCEPT !.panic = "index out of range"]
          ELSE joinLoop(
                 joinBucket([st EXCEPT !.low[lowCardSeriesID] = <<>>],
                            highCardHashes[hash], highCardInputIndex[hash],
                            lowCardSeriesID, 1),
                 Tail(order), highCardHashes, highCardInputIndex,
                 lowCardInputIndex, outputSize)

\* The signatures left in highCardHashes after pruning.
Surviving(highCardHashes, lowCardHashes) ==
  DOMAIN highCardHashes \cap DOMAIN lowCardHashes

join(highCardHashes, highCardInputIndex, lowCardHashes, lowCardInputIndex, order) ==
  LET outputSize == SumLen(highCardHashes, DOMAIN highCardHashes)
  IN joinLoop([ outputIndex |-> <<>>,
                high  |-> [i \in 0..(outputSize - 1) |-> NilID],
                low   |-> [i \in 0..(outputSize - 1) |-> <<>>],
                panic |-> "nil" ],
              order, highCardHashes, highCardInputIndex, lowCardInputIndex,
              outputSize)

\* All orders in which a map with these keys can be iterated.
Orders(keys) ==
  {f \in [1..Cardinality(keys) -> keys] : \A k \in keys : \E i \in DOMAIN f : f[i] = k}

\* The sides of the join: lhs is the high cardinality side unless the
\* matching is one-to-many.
HighCardSide_NoSwap(matching, lhsSeries, rhsSeries) == lhsSeries
HighCardSide(matching, lhsSeries, rhsSeries) ==
  IF matching.Card = "CardOneToMany" THEN rhsSeries ELSE lhsSeries
LowCardSide(matching, lhsSeries, rhsSeries) ==
  IF matching.Card = "CardOneToMany" THEN lhsSeries ELSE rhsSeries

\* The signatures join iterates over, for the series the children returned.
JoinKeys(matching, lhsSeries, rhsSeries) ==
  Surviving(
    hashSeries(matching, HighCardSide(matching, lhsSeries, rhsSeries), TRUE).hashes,
    hashSeries(matching, LowCardSide(matching, lhsSeries, rhsSeries), FALSE).hashes)

\* newTable fails for an operation it has no implementation of.
Operations == {"ADD", "UNSUPPORTED"}
newTableErr(operation) ==
  IF operation = "UNSUPPORTED" THEN "newTable: error" ELSE "nil"

ChildCall(child, fn, err, batch) ==
  [child |-> child, fn |-> fn, err |-> err, batch |-> batch]
PoolOp(pool, op, owner, idx) ==
  [pool |-> pool, op |-> op, owner |-> owner, idx |-> idx]

\* series[s.ID] = s.Metric for every output series
SeriesOf(output) == [i \in 1..Len(output) |-> output[i].Metric]

\* The hashing and the join of initOutputs.
joinSides(high, low, order) ==
  join(high.hashes, high.inputIndex, low.hashes, low.inputIndex, order)
hashAndJoin(matching, highCardSide, lowCardSide, order) ==
  joinSides(hashSeries(matching, highCardSide, TRUE),
            hashSeries(matching, lowCardSide, FALSE), order)

\* The fields initOutputs assigns from the join j of stepSize high
\* cardinality series.
withOutputs(o, j, stepSize) ==
  [o EXCEPT !.series = SeriesOf(j.outputIndex),
            !.seriesNil = FALSE,
            !.highCardOutputIndex = j.high,
            !.lowCardOutputIndex = j.low,
            !.outputCache = Len(j.outputIndex),
            !.stepSize = stepSize]

SeriesCalls(lhsErr, rhsErr) ==
  <<ChildCall("lhs", "Series", lhsErr, <<>>),
    ChildCall("rhs", "Series", rhsErr, <<>>)>>

\* initOutputs once both children's Series have succeeded.
initFromJoin(o, j, stepSize, tableErr) ==
  IF j.panic # "nil"
  THEN [o |-> o, err |-> "nil", panic |-> j.panic,
        calls |-> SeriesCalls("nil", "nil"), poolOps |-> <<>>]
  ELSE [ o       |-> [withOutputs(o, j, stepSize) EXCEPT !.table = (tableErr = "nil")],
         err     |-> tableErr,
         panic   |-> "nil",
         calls   |-> SeriesCalls("nil", "nil"),
         poolOps |-> <<PoolOp("own", "SetStepSize", "", stepSize)>> ]

\* initOutputs: in.lhs and in.rhs are what the children's Series return
\* (err, series) and in.order the map iteration order met by join.
initOutputs(o, in) ==
  IF in.lhs.err # "nil"
  THEN [ o |-> o, err |-> in.lhs.err, panic |-> "nil",
         calls |-> <<ChildCall("lhs", "Series", in.lhs.err, <<>>)>>,
         poolOps |-> <<>> ]
  ELSE IF in.rhs.err # "nil"
  THEN [ o |-> o, err |-> in.rhs.err, panic |-> "nil",
         calls |-> SeriesCalls("nil", in.rhs.err),
         poolOps |-> <<>> ]
  ELSE initFromJoin(
         o,
         hashAndJoin(o.matching,
                     HighCardSide(o.matching, in.lhs.series, in.rhs.series),
                     LowCardSide(o.matching, in.lhs.series, in.rhs.series),
                     in.order),
         Len(HighCardSide(o.matching, in.lhs.series, in.rhs.series)),
         newTableErr(o.operation))

\* The latch is set once the body has run, also when the body failed.
latched_Never(r) ==
  [o |-> r.o, err |-> r.err, panic |-> r.panic,
   calls |-> r.calls, poolOps |-> r.poolOps, ran |-> TRUE]
latched(r) ==
  [o |-> [r.o EXCEPT !.once = TRUE], err |-> r.err, panic |-> r.panic,
   calls |-> r.calls, poolOps |-> r.poolOps, ran |-> TRUE]

\* o.once.Do(func() { err = o.initOutputs(ctx) }): the body runs on the
\* first call only.
onceDo(o, in) ==
  IF o.once
  THEN [o |-> o, err |-> "nil", panic |-> "nil", calls |-> <<>>,
        poolOps |-> <<>>, ran |-> FALSE]
  ELSE latched(initOutputs(o, in))

NewVectorOperator(matching, operation) ==
  [ matching            |-> matching,
    operation           |-> operation,
    once                |-> FALSE,
    series              |-> <<>>,
    seriesNil           |-> TRUE,
    outputCache         |-> 0,
    highCardOutputIndex |-> <<>>,
    lowCardOutputIndex  |-> <<>>,
    table               |-> FALSE,
    stepSize            |-> 0 ]

\* ------------------------------------------------------------------------
\* vectorOperator: Series and Next
\* ------------------------------------------------------------------------
\* What a call returned: res says whether a value came back with it.
Returned(op, o, d, res, err, panic, series, batch, calls, poolOps) ==
  [ o   |-> o,
    ran |-> d,
    out |-> [ op |-> op, res |-> res, err |-> err, panic |-> panic,
              series |-> series, batch |-> batch, calls |-> calls,
              poolOps |-> poolOps ] ]

\* Series after o.once.Do returned d.
seriesAfterInit(d) ==
  IF d.panic # "nil"
  THEN Returned("Series", d.o, d.ran, "nil", "nil", d.panic, <<>>, <<>>,
                d.calls, d.poolOps)
  ELSE IF d.err # "nil"
  THEN Returned("Series", d.o, d.ran, "nil", d.err, "nil", <<>>, <<>>,
                d.calls, d.poolOps)
  ELSE Returned("Series", d.o, d.ran,
                IF d.o.seriesNil THEN "nil" ELSE "series", "nil", "nil",
                d.o.series, <<>>, d.calls, d.poolOps)

binSeries(o, in) == seriesAfterInit(onceDo(o, in))

\* table.execBinaryOperation(lhs[i], rhs[i]): the output step vector, taken
\* from the operator's own pool.
execBinaryOperation(l, r) ==
  [ step    |-> [owner |-> "own", idx |-> l.idx, T |-> l.T],
    poolOps |-> <<PoolOp("own", "GetStepVector", "own", l.idx)>> ]

\* The pools the loop of Next gives the step vectors back to.
LhsVectorPool_Swapped == "rhs"
LhsVectorPool == "lhs"
RhsVectorPool == "rhs"

\* The loop of Next over lhs, at 0-based index i.
RECURSIVE nextLoop(_, _, _, _, _)
nextLoop(o, lhs, rhs, i, st) ==
  IF i >= Len(lhs) THEN st
  ELSE IF i >= Len(rhs) THEN [st EXCEPT !.panic = "index out of range"]
  ELSE IF ~o.table THEN [st EXCEPT !.panic = "nil pointer dereference"]
  ELSE LET e    == execBinaryOperation(lhs[i + 1], rhs[i + 1])
           ops1 == st.poolOps \o e.poolOps
                     \o <<PoolOp(LhsVectorPool, "PutStepVector",
                                 lhs[i + 1].owner, lhs[i + 1].idx)>>
           ops2 == IF i < Len(rhs)
                   THEN Append(ops1, PoolOp(RhsVectorPool, "PutStepVector",
                                            rhs[i + 1].owner, rhs[i + 1].idx))
                   ELSE ops1
       IN nextLoop(o, lhs, rhs, i + 1,
                   [batch |-> Append(st.batch, e.step), poolOps |-> ops2,
                    panic |-> "nil"])

\* The error checks on what the children's Next returned.
LhsFailed(l) == l.err # "nil"
RhsFailed_Ignored(r) == FALSE
RhsFailed(r) == r.err # "nil"

\* Either input's batch is empty.
EmptyCheck_Both(lhs, rhs) == Len(lhs) = 0 /\ Len(rhs) = 0
EmptyCheck(lhs, rhs) == Len(lhs) = 0 \/ Len(rhs) = 0

NextCalls(l, r) ==
  <<ChildCall("lhs", "Next", l.err, l.batch),
    ChildCall("rhs", "Next", r.err, r.batch)>>

\* The end of Next, after its loop has left st.
nextAfterLoop(d, calls, st) ==
  IF st.panic # "nil"
  THEN Returned("Next", d.o, d.ran, "nil", "nil", st.panic, <<>>, <<>>,
                calls, st.poolOps)
  ELSE Returned("Next", d.o, d.ran, "batch", "nil", "nil", <<>>, st.batch,
                calls,
                st.poolOps \o <<PoolOp("lhs", "PutVectors", "lhs", 0),
                                PoolOp("rhs", "PutVectors", "rhs", 0)>>)

\* Next after o.once.Do returned d.
nextAfterInit(d, l, r) ==
  IF d.panic # "nil"
  THEN Returned("Next", d.o, d.ran, "nil", "nil", d.panic, <<>>, <<>>,
                NextCalls(l, r) \o d.calls, d.poolOps)
  ELSE IF d.err # "nil"
  THEN Returned("Next", d.o, d.ran, "nil", d.err, "nil", <<>>, <<>>,
                NextCalls(l, r) \o d.calls, d.poolOps)
  ELSE nextAfterLoop(
         d, NextCalls(l, r) \o d.calls,
         nextLoop(d.o, l.batch, r.batch, 0,
                  [ batch   |-> <<>>,
                    poolOps |-> Append(d.poolOps,
                                   PoolOp("own", "GetVectorBatch", "own", 0)),
                    panic   |-> "nil" ]))

\* Next: l and r are what lhs.Next and rhs.Next return (err, batch), `in`
\* what initOutputs meets if it runs.
binNext(o, l, r, in) ==
  IF LhsFailed(l)
  THEN Returned("Next", o, FALSE, "nil", l.err, "nil", <<>>, <<>>,
                <<ChildCall("lhs", "Next", l.err, l.batch)>>, <<>>)
  ELSE IF RhsFailed(r)
  THEN Returned("Next", o, FALSE, "nil", r.err, "nil", <<>>, <<>>,
                NextCalls(l, r), <<>>)
  ELSE IF EmptyCheck(l.batch, r.batch)
  THEN Returned("Next", o, FALSE, "nil", "nil", "nil", <<>>, <<>>,
                NextCalls(l, r), <<>>)
  ELSE nextAfterInit(onceDo(o, in), l, r)

\* ------------------------------------------------------------------------
\* The binary operator's state machine
\* ------------------------------------------------------------------------
\* A child returns at most MaxLen step vectors from one Next.
MaxLen == 2
\* The label sets the children's series are drawn from.
BinLabelSets ==
  { {<<MetricName, "up">>, <<"job", "a">>},
    {<<MetricName, "up">>, <<"job", "a">>, <<"cpu", "0">>} }

VectorMatching(on, matchingLabels, card, include) ==
  [On |-> on, MatchingLabels |-> matchingLabels, Card |-> card,
   Include |-> include]

\* The matchings the operator is built with: on(job), on() group_left,
\* ignoring(cpu) group_right, ignoring(), ignoring(cpu),
\* on(job) group_left(cpu) and on(__name__, job).
BinMatchings ==
  { VectorMatching(TRUE,  <<"job">>, "CardOneToOne", <<>>),
    VectorMatching(TRUE,  <<>>,      "CardManyToOne", <<>>),
    VectorMatching(FALSE, <<"cpu">>, "CardOneToMany", <<>>),
    VectorMatching(FALSE, <<>>,      "CardOneToOne", <<>>),
    VectorMatching(FALSE, <<"cpu">>, "CardOneToOne", <<>>),
    VectorMatching(TRUE,  <<"job">>, "CardManyToOne", <<"cpu">>),
    VectorMatching(TRUE,  <<MetricName, "job">>, "CardOneToOne", <<>>) }

\* The operators built: every matching with a supported operation, and one
\* operator with an operation newTable rejects.
BinConfigs ==
  {[matching |-> m, operation |-> "ADD"] : m \in BinMatchings}
    \cup {[matching |-> VectorMatching(TRUE, <<"job">>, "CardOneToOne", <<>>),
           operation |-> "UNSUPPORTED"]}

\* The series lists a child can have: the lists of distinct label sets.
SeriesLists ==
  UNION { {s \in [1..n -> BinLabelSets] :
             \A i, j \in 1..n : i # j => s[i] # s[j]} :
          n \in 0..Cardinality(BinLabelSets) }

\* What a child's Series can return.
ChildSeriesResults(child) ==
  {[err |-> child \o ".Series: error", series |-> <<>>]}
    \cup {[err |-> "nil", series |-> s] : s \in SeriesLists}

\* The timestamp of the first step vector of a child's batch.
BatchStarts == {0, 1}

\* What a child's Next can return: an error, or a batch of 0..MaxLen step
\* vectors of its own at consecutive timestamps.
ChildNextResults(child) ==
  {[err |-> child \o ".Next: error", batch |-> <<>>]}
    \cup {[err |-> "nil",
           batch |-> [j \in 1..n |->
                        [owner |-> child, idx |-> j, T |-> t0 + j - 1]]] :
            n \in 0..MaxLen, t0 \in BatchStarts}

\* What initOutputs can meet: the children's Series results and, when both
\* succeed, an iteration order of the surviving signatures.
InitInputs(o) ==
  {[lhs |-> ls, rhs |-> rs, order |-> <<>>] :
      ls \in {x \in ChildSeriesResults("lhs") : x.err # "nil"},
      rs \in {[err |-> "nil", series |-> <<>>]}}
  \cup
  {[lhs |-> ls, rhs |-> rs, order |-> <<>>] :
      ls \in {[err |-> "nil", series |-> <<>>]},
      rs \in {x \in ChildSeriesResults("rhs") : x.err # "nil"}}
  \cup
  UNION { UNION { {[lhs |-> ls, rhs |-> rs, order |-> ord] :
                     ord \in Orders(JoinKeys(o.matching, ls.series, rs.series))} :
                  rs \in {x \in ChildSeriesResults("rhs") : x.err = "nil"} } :
          ls \in {x \in ChildSeriesResults("lhs") : x.err = "nil"} }

NoInput == [lhs |-> [err |-> "nil", series |-> <<>>],
            rhs |-> [err |-> "nil", series |-> <<>>],
            order |-> <<>>, set |-> FALSE]

NoBinCall == [op |-> "none", res |-> "nil", err |-> "nil", panic |-> "nil",
              series |-> <<>>, batch |-> <<>>, calls |-> <<>>, poolOps |-> <<>>]

\* The outcome of a Series call, as its caller sees it.
Outcome(out) ==
  [set |-> TRUE, res |-> out.res, err |-> out.err, panic |-> out.panic,
   series |-> out.series]
NoOutcome ==
  [set |-> FALSE, res |-> "nil", err |-> "nil", panic |-> "nil", series |-> <<>>]

BinInit ==
  /\ \E c \in BinConfigs : bin = NewVectorOperator(c.matching, c.operation)
  /\ binIn = NoInput
  /\ binOut = NoBinCall
  /\ binFirst = NoOutcome
  /\ binInits = 0

\* The inputs initOutputs meets in a call: none are drawn once the latch is set.
InputsOf(o) == IF o.once THEN {[lhs |-> NoInput.lhs, rhs |-> NoInput.rhs,
                                order |-> <<>>]}
               ELSE InitInputs(o)

Remember(r, in) ==
  /\ bin' = r.o
  /\ binOut' = r.out
  /\ binIn' = IF r.ran THEN [lhs |-> in.lhs, rhs |-> in.rhs,
                             order |-> in.order, set |-> TRUE]
              ELSE binIn
  /\ binInits' = binInits + (IF r.ran THEN 1 ELSE 0)

RememberFirst(r, in) ==
  /\ Remember(r, in)
  /\ binFirst' = IF binFirst.set THEN binFirst ELSE Outcome(r.out)

\* A panic is not recovered from: no call follows it.
Running == binOut.panic = "nil"

\* The consumer calls Series.
BinSeries ==
  /\ Running
  /\ \E in \in InputsOf(bin) : RememberFirst(binSeries(bin, in), in)
  /\ UNCHANGED <<selVars, raceVars>>

\* The consumer calls Next.
BinNext ==
  /\ Running
  /\ \E l \in ChildNextResults("lhs"), r \in ChildNextResults("rhs"),
        in \in InputsOf(bin) :
       /\ Remember(binNext(bin, l, r, in), in)
       /\ binFirst' = binFirst
  /\ UNCHANGED <<selVars, raceVars>>

\* ------------------------------------------------------------------------
\* Series and the first Next called concurrently on one operator
\* ------------------------------------------------------------------------
\* One goroutine calls Series, another calls Next.
Callers == {"Series", "Next"}

\* What once.Do hands back to a caller before the caller has passed it.
NoDo(o) ==
  [o |-> o, err |-> "nil", panic |-> "nil", calls |-> <<>>,
   poolOps |-> <<>>, ran |-> FALSE]

NoLocals(o) ==
  [ l |-> [err |-> "nil", batch |-> <<>>],
    r |-> [err |-> "nil", batch |-> <<>>],
    d |-> NoDo(o) ]

NoReturn(o) == [set |-> FALSE, saw |-> o, out |-> NoBinCall]

\* The shared operator: its fields (o), the caller inside once.Do (mu), the
\* result the running body of initOutputs is about to leave (pending) and
\* how many times the body has been entered (inits).
NewRace(o) ==
  [o |-> o, mu |-> "none", inits |-> 0, pending |-> NoDo(o),
   in |-> NoInput]

RaceInit ==
  /\ \E c \in BinConfigs : race = NewRace(NewVectorOperator(c.matching, c.operation))
  /\ racePc = [p \in Callers |-> IF p = "Next" THEN "call" ELSE "do"]
  /\ raceLoc = [p \in Callers |-> NoLocals(race.o)]
  /\ raceRet = [p \in Callers |-> NoReturn(race.o)]

RaceIdle ==
  /\ race = NewRace(NewVectorOperator(VectorMatching(TRUE, <<>>, "CardOneToOne", <<>>),
                                      "ADD"))
  /\ racePc = [p \in Callers |-> "done"]
  /\ raceLoc = [p \in Callers |-> NoLocals(race.o)]
  /\ raceRet = [p \in Callers |-> NoReturn(race.o)]

\* A panic that has reached the top of its goroutine ends the program.
RaceRunning == \A p \in Callers : racePc[p] # "panicked"

\* Next returns before once.Do on a child error or an empty batch.
ReturnsBeforeInit(l, r) ==
  LhsFailed(l) \/ RhsFailed(r) \/ EmptyCheck(l.batch, r.batch)

\* Next up to once.Do: the children's Next and the early returns.
RaceNextCall ==
  /\ RaceRunning
  /\ racePc["Next"] = "call"
  /\ \E l \in ChildNextResults("lhs"), r \in ChildNextResults("rhs") :
       IF ReturnsBeforeInit(l, r)
       THEN /\ racePc' = [racePc EXCEPT !["Next"] = "done"]
            /\ raceRet' = [raceRet EXCEPT !["Next"] =
                             [set |-> TRUE, saw |-> race.o,
                              out |-> binNext(race.o, l, r, NoInput).out]]
            /\ raceLoc' = raceLoc
       ELSE /\ racePc' = [racePc EXCEPT !["Next"] = "do"]
            /\ raceLoc' = [raceLoc EXCEPT !["Next"].l = l, !["Next"].r = r]
            /\ raceRet' = raceRet
  /\ race' = race
  /\ UNCHANGED <<selVars, binVars>>

\* once.Do, the load of the latch: the caller returns from once.Do when it
\* is set and goes on to take the mutex of once when it is not.
RaceDoFast(p) ==
  /\ RaceRunning
  /\ racePc[p] = "do"
  /\ IF race.o.once
     THEN /\ racePc' = [racePc EXCEPT ![p] = "ret"]
          /\ raceLoc' = [raceLoc EXCEPT ![p].d = onceDo(race.o, NoInput)]
     ELSE /\ racePc' = [racePc EXCEPT ![p] = "lock"]
          /\ raceLoc' = raceLoc
  /\ UNCHANGED <<race, raceRet, selVars, binVars>>

\* The mutex of once makes a caller wait while another caller holds it.
DoBlocked(mu, p) == mu # "none"

\* m.Lock() in once.Do.
RaceLock(p) ==
  /\ RaceRunning
  /\ racePc[p] = "lock"
  /\ ~DoBlocked(race.mu, p)
  /\ race' = [race EXCEPT !.mu = p]
  /\ racePc' = [racePc EXCEPT ![p] = "locked"]
  /\ UNCHANGED <<raceLoc, raceRet, selVars, binVars>>

\* The operator while the body of initOutputs is between the assignment of
\* the output fields and the construction of the table.
BeforeTable(o, r) == [r.o EXCEPT !.table = o.table, !.once = o.once]

\* The body got as far as assigning the output fields: neither a child's
\* Series failed nor join panicked.
ReachedTable(r) == ~r.o.seriesNil

\* The body of initOutputs is entered with result r pending, and runs up to
\* the construction of the table, or to the child error or panic that ends
\* it before.
BeginBody(p, r, in) ==
  /\ race' = [race EXCEPT !.inits = @ + 1,
                          !.pending = r,
                          !.o = BeforeTable(race.o, r),
                          !.in = [lhs |-> in.lhs, rhs |-> in.rhs,
                                  order |-> in.order, set |-> TRUE]]
  /\ racePc' = [racePc EXCEPT ![p] = IF ReachedTable(r) THEN "body" ELSE "store"]
  /\ raceLoc' = [raceLoc EXCEPT ![p].d = r]

\* once.Do with the mutex held: the latch is read again; when it is set the
\* body is skipped, otherwise the caller enters the body.
RaceDoBegin(p) ==
  /\ RaceRunning
  /\ racePc[p] = "locked"
  /\ IF race.o.once
     THEN /\ racePc' = [racePc EXCEPT ![p] = "unlock"]
          /\ raceLoc' = [raceLoc EXCEPT ![p].d = onceDo(race.o, NoInput)]
          /\ race' = race
     ELSE \E in \in InitInputs(race.o) : BeginBody(p, onceDo(race.o, in), in)
  /\ UNCHANGED <<raceRet, selVars, binVars>>

\* The rest of the body: newTable and the assignment of o.table.
RaceBodyEnd(p) ==
  /\ RaceRunning
  /\ racePc[p] = "body"
  /\ race' = [race EXCEPT !.o = [race.pending.o EXCEPT !.once = FALSE]]
  /\ racePc' = [racePc EXCEPT ![p] = "store"]
  /\ UNCHANGED <<raceLoc, raceRet, selVars, binVars>>

\* The deferred done.Store(1) of once.Do, run when the body has returned
\* and also while a panic of the body unwinds.
RaceStore(p) ==
  /\ RaceRunning
  /\ racePc[p] = "store"
  /\ race' = [race EXCEPT !.o.once = TRUE]
  /\ racePc' = [racePc EXCEPT ![p] = "unlock"]
  /\ UNCHANGED <<raceLoc, raceRet, selVars, binVars>>

\* The deferred m.Unlock() of once.Do; the caller then leaves once.Do, with
\* the body's error, or goes on unwinding with the body's panic.
RaceUnlock(p) ==
  /\ RaceRunning
  /\ racePc[p] = "unlock"
  /\ race' = [race EXCEPT !.mu = "none"]
  /\ racePc' = [racePc EXCEPT ![p] =
                  IF raceLoc[p].d.panic # "nil" THEN "unwound" ELSE "ret"]
  /\ UNCHANGED <<raceLoc, raceRet, selVars, binVars>>

\* What a caller does after once.Do, reading the operator's fields as they
\* are now.
AfterDo(p, o, loc) ==
  IF p = "Series"
  THEN seriesAfterInit([loc.d EXCEPT !.o = o]).out
  ELSE nextAfterInit([loc.d EXCEPT !.o = o], loc.l, loc.r).out

Finish(p, o, out) ==
  /\ raceRet' = [raceRet EXCEPT ![p] = [set |-> TRUE, saw |-> o, out |-> out]]
  /\ racePc' = [racePc EXCEPT ![p] =
                  IF out.panic # "nil" THEN "unwound" ELSE "done"]

\* The rest of Series or Next after once.Do.
RaceReturn(p) ==
  /\ RaceRunning
  /\ racePc[p] = "ret"
  /\ Finish(p, race.o, AfterDo(p, race.o, raceLoc[p]))
  /\ UNCHANGED <<race, raceLoc, selVars, binVars>>

\* A panic reaches the top of its goroutine: the program ends.
RacePanicExit(p) ==
  /\ RaceRunning
  /\ racePc[p] = "unwound"
  /\ racePc' = [racePc EXCEPT ![p] = "panicked"]
  /\ UNCHANGED <<race, raceLoc, raceRet, selVars, binVars>>

\* ------------------------------------------------------------------------
\* Specifications
\* ------------------------------------------------------------------------
\* While one operator is exercised the other sits unused.
SelIdle ==
  /\ sel = NewNumberLiteralSelector(0, 0, 0, 1, 1, "nil")
  /\ selOut = NoCall
  /\ selHeld = FALSE
  /\ selEmitted = <<>>
  /\ selEos = FALSE

BinIdle ==
  /\ bin = NewVectorOperator(VectorMatching(TRUE, <<>>, "CardOneToOne", <<>>),
                             "ADD")
  /\ binIn = NoInput
  /\ binOut = NoBinCall
  /\ binFirst = NoOutcome
  /\ binInits = 0

InitSel == SelInit /\ BinIdle /\ RaceIdle
InitBin == BinInit /\ SelIdle /\ RaceIdle
InitRace == RaceInit /\ SelIdle /\ BinIdle

NextSel == SelNext \/ SelSeries \/ SelConsume

SpecSel == InitSel /\ [][NextSel]_vars

\* The driver keeps pumping: a pending Next call or hand-back happens.
FairSel == InitSel /\ [][NextSel]_vars /\ WF_vars(SelNext) /\ WF_vars(SelConsume)

NextBin == BinSeries \/ BinNext

SpecBin == InitBin /\ [][NextBin]_vars

NextRace ==
  \/ RaceNextCall
  \/ \E p \in Callers : RaceDoFast(p)
  \/ \E p \in Callers : RaceLock(p)
  \/ \E p \in Callers : RaceDoBegin(p)
  \/ \E p \in Callers : RaceBodyEnd(p)
  \/ \E p \in Callers : RaceStore(p)
  \/ \E p \in Callers : RaceUnlock(p)
  \/ \E p \in Callers : RaceReturn(p)
  \/ \E p \in Callers : RacePanicExit(p)

SpecRace == InitRace /\ [][NextRace]_vars

\* ------------------------------------------------------------------------
\* Properties of the number-literal selector
\* ------------------------------------------------------------------------
\* floor((maxt - mint) / step), for mint <= maxt and step > 0
LastK(o) == (o.maxt - o.mint) \div o.step

RangeQueryNoCall(o) == o.mint <= o.maxt /\ o.step > 0 /\ o.call = "nil"

\* C1: for mint <= maxt, step > 0, stepsBatch >= 1 and no wrapping call, the
\* timestamps emitted over successive Next calls, in emission order, are
\* mint, mint+step, ..., mint+k*step with k = floor((maxt-mint)/step): the
\* history is always a prefix of that progression (so nothing is repeated,
\* nothing skipped, nothing is beyond maxt, and a batch starts one step after
\* the previous batch's last timestamp), and at end-of-stream it is all of it.
C1_TimestampsFormProgression ==
  RangeQueryNoCall(sel) =>
    /\ Len(selEmitted) <= LastK(sel) + 1
    /\ \A i \in 1..Len(selEmitted) :
         /\ selEmitted[i] = sel.mint + (i - 1) * sel.step
         /\ selEmitted[i] <= sel.maxt
    /\ selEos => Len(selEmitted) = LastK(sel) + 1
    /\ (selOut.op = "Next" /\ selOut.batch # <<>>) =>
         /\ \A j \in 1..Len(selOut.batch) :
              selOut.batch[j].T =
                selEmitted[Len(selEmitted) - Len(selOut.batch) + j]

\* C1 witness: a range query that needed several batches, whose last
\* timestamp lies strictly below maxt, has reached end-of-stream.
C1_Witness ==
  /\ RangeQueryNoCall(sel)
  /\ selEos
  /\ Len(selEmitted) > sel.stepsBatch
  /\ (sel.maxt - sel.mint) % sel.step # 0

\* C2: for every mint <= maxt, stepsBatch >= 1 and step >= 0, a driver that
\* keeps calling Next eventually gets an empty batch.
C2_ReachesEndOfStream == (sel.mint <= sel.maxt) => <>selEos

\* A step of the state machine that is a Next call on the selector.
IsSelNextCall == ~selHeld /\ selOut'.op = "Next"

\* C3: once a Next call has returned an empty batch, every later Next call
\* returns an empty batch and no error, emits no step vector and takes
\* neither a batch nor a step vector from the pool.
C3_EndOfStreamIsSticky ==
  [][ (selEos /\ IsSelNextCall) =>
        /\ selOut'.batch = <<>>
        /\ selOut'.err = "nil"
        /\ selOut'.batchGets = 0
        /\ selOut'.vecGets = 0
        /\ selEmitted' = selEmitted
        /\ selEos' ]_vars

\* C3 witness: end-of-stream was reached after step vectors had been
\* emitted, and Next has been called again since (the operator sits past
\* maxt and the last call, a Next, returned empty).
C3_Witness ==
  /\ selEos
  /\ selEmitted # <<>>
  /\ selOut.op = "Next"
  /\ selOut.batch = <<>>
  /\ sel.currentStep > sel.maxt

\* The value the selector must report at timestamp t.
ExpectedValue(o, t) ==
  IF o.call = "nil" THEN o.val ELSE CallSample(o.call, o.val, t).V

\* C5: Series() returns exactly one series; every step vector emitted by
\* Next holds exactly one sample, with series id 0 and the literal's value
\* (passed through the wrapping call at that step's timestamp when there is
\* one); so len(Series()) = max emitted sample id + 1.
C5_SingleSyntheticSeries ==
  /\ selOut.op = "Series" => Len(selOut.series) = 1
  /\ sel.once => Len(sel.series) = 1
  /\ selOut.op = "Next" =>
       \A j \in 1..Len(selOut.batch) :
         /\ selOut.batch[j].SampleIDs = <<0>>
         /\ selOut.batch[j].Samples = <<ExpectedValue(sel, selOut.batch[j].T)>>
         /\ Len(sel.series) = selOut.batch[j].SampleIDs[1] + 1

\* C5 witness: a selector with a wrapping call has emitted a batch of two or
\* more step vectors.
C5_Witness ==
  /\ selOut.op = "Next"
  /\ sel.call = "neg"
  /\ Len(selOut.batch) >= 2

\* C6: a batch returned by one Next call holds at most stepsBatch step
\* vectors, whatever mint, maxt, step and the calls before it.
C6_BatchAtMostStepsBatch ==
  selOut.op = "Next" => Len(selOut.batch) <= sel.stepsBatch

\* C6 witness: a full batch was returned by a Next call that was not the
\* first, with more steps in the range than one batch holds.
C6_Witness ==
  /\ selOut.op = "Next"
  /\ Len(selOut.batch) = sel.stepsBatch
  /\ Len(selEmitted) > Len(selOut.batch)
  /\ sel.step > 0
  /\ TotalSteps(sel) > sel.stepsBatch

\* ------------------------------------------------------------------------
\* Properties of the binary operator
\* ------------------------------------------------------------------------
\* The calls of the last binary-operator call that were made to fn.
CallIdx(fn) == {i \in DOMAIN binOut.calls : binOut.calls[i].fn = fn}

\* A child's Next returned an empty batch and no error in the last call.
SomeChildEmpty ==
  \E i \in CallIdx("Next") :
    binOut.calls[i].err = "nil" /\ binOut.calls[i].batch = <<>>

NoChildNextError == \A i \in CallIdx("Next") : binOut.calls[i].err = "nil"

ReturnedEmpty ==
  binOut.err = "nil" /\ binOut.panic = "nil" /\ binOut.batch = <<>>

\* C4 as stated: whenever lhs.Next or rhs.Next returns an empty batch
\* without error, Next returns an empty batch and no error, whatever the
\* other child returned.
C4_AsStated ==
  (binOut.op = "Next" /\ SomeChildEmpty) => ReturnedEmpty

\* C4 amended: whenever lhs.Next or rhs.Next returns an empty batch without
\* error and the other child's Next returns no error, Next returns an empty
\* batch and no error, whatever batch the other child returned.
C4_EmptyChildEndsStream ==
  (binOut.op = "Next" /\ SomeChildEmpty /\ NoChildNextError) => ReturnedEmpty

\* C4 witness: lhs.Next returned an empty batch and rhs.Next a batch of two
\* step vectors, on an operator that is already initialised.
C4_Witness ==
  /\ binOut.op = "Next"
  /\ bin.table
  /\ Len(binOut.calls) = 2
  /\ binOut.calls[1].err = "nil" /\ binOut.calls[1].batch = <<>>
  /\ binOut.calls[2].err = "nil" /\ Len(binOut.calls[2].batch) = 2

\* C7: every Series call returns the same outcome as the first Series call,
\* and the body of the initialisation runs at most once.
C7_SeriesIdempotent ==
  /\ (binOut.op = "Series" /\ binFirst.set) => Outcome(binOut) = binFirst
  /\ binInits <= 1

\* C8: a child error returned to a Next or Series call is returned by that
\* call unchanged and without a result; no child is called after the failure
\* (so rhs.Next is not called when lhs.Next failed) and the failing child is
\* not called a second time.
C8_ChildErrorsPropagate ==
  \A i \in DOMAIN binOut.calls :
    binOut.calls[i].err # "nil" =>
      /\ i = Len(binOut.calls)
      /\ binOut.err = binOut.calls[i].err
      /\ binOut.res = "nil"
      /\ binOut.batch = <<>>
      /\ binOut.series = <<>>
      /\ \A j \in DOMAIN binOut.calls :
           (binOut.calls[j].child = binOut.calls[i].child
              /\ binOut.calls[j].fn = binOut.calls[i].fn) => j = i

\* C8 witness: during a Next call both children returned batches,
\* lhs.Series succeeded and rhs.Series returned an error.
C8_Witness ==
  /\ binOut.op = "Next"
  /\ Len(binOut.calls) = 4
  /\ binOut.calls[4].child = "rhs"
  /\ binOut.calls[4].fn = "Series"
  /\ binOut.calls[4].err # "nil"
  /\ binOut.err = binOut.calls[4].err

Ops == Range(binOut.poolOps)

\* The batch a child's Next handed over in call i has been given back: each
\* step vector and the container are in the child's pool again.
GivenBack(i) ==
  LET c == binOut.calls[i]
  IN /\ \A k \in DOMAIN c.batch :
          PoolOp(c.child, "PutStepVector", c.batch[k].owner, c.batch[k].idx) \in Ops
     /\ PoolOp(c.child, "PutVectors", c.child, 0) \in Ops

\* C9: when Next returns an error after a child has handed it a batch, every
\* step vector and batch container received in that call has been returned
\* to the producing child's pool.
C9_ErrorGivesBatchesBack ==
  (binOut.op = "Next" /\ binOut.err # "nil") =>
    \A i \in CallIdx("Next") :
      (binOut.calls[i].err = "nil" /\ binOut.calls[i].batch # <<>>) =>
        GivenBack(i)

Count(op) == Cardinality({i \in DOMAIN binOut.poolOps : binOut.poolOps[i] = op})

\* Both children returned non-empty batches of equal length and Next
\* returned without error.
EqualBatchesNoError ==
  /\ binOut.op = "Next"
  /\ binOut.err = "nil"
  /\ binOut.panic = "nil"
  /\ Len(binOut.calls) >= 2
  /\ binOut.calls[1].err = "nil"
  /\ binOut.calls[2].err = "nil"
  /\ binOut.calls[1].batch # <<>>
  /\ Len(binOut.calls[1].batch) = Len(binOut.calls[2].batch)

\* C10: when both children return non-empty batches of equal length and no
\* error, by the time Next returns each lhs step vector has been put into
\* the lhs pool exactly once and each rhs step vector into the rhs pool
\* exactly once, nothing was put into another pool, both containers went
\* back to their own child's pool, and the output batch came from the
\* operator's own pool.
C10_VectorsGoBackToTheirPools ==
  EqualBatchesNoError =>
    /\ \A i \in 1..2 :
         LET c == binOut.calls[i]
         IN /\ \A k \in DOMAIN c.batch :
                 Count(PoolOp(c.child, "PutStepVector",
                              c.batch[k].owner, c.batch[k].idx)) = 1
            /\ Count(PoolOp(c.child, "PutVectors", c.child, 0)) = 1
    /\ \A k \in DOMAIN binOut.poolOps :
         binOut.poolOps[k].op \in {"PutStepVector", "PutVectors"} =>
           /\ binOut.poolOps[k].pool = binOut.poolOps[k].owner
           /\ binOut.poolOps[k].pool \in {"lhs", "rhs"}
    /\ Count(PoolOp("own", "GetVectorBatch", "own", 0)) = 1
    /\ binOut.res = "batch"
    /\ Len(binOut.batch) = Len(binOut.calls[1].batch)
    /\ \A k \in DOMAIN binOut.batch : binOut.batch[k].owner = "own"

\* C10 witness: Next combined two batches of two step vectors each.
C10_Witness ==
  /\ EqualBatchesNoError
  /\ Len(binOut.calls[1].batch) = 2
  /\ Len(binOut.batch) = 2

\* Exactly one child's Next returned an empty batch in the last Next call,
\* the other a non-empty one, neither an error.
OneChildEmpty ==
  /\ binOut.op = "Next"
  /\ Len(binOut.calls) = 2
  /\ NoChildNextError
  /\ (binOut.calls[1].batch = <<>>) # (binOut.calls[2].batch = <<>>)

\* C11: when exactly one child returns an empty batch and the other a
\* non-empty one, the step vectors and the container of the non-empty batch
\* have been returned to the producing child's pool by the time Next
\* returns empty.
C11_NonEmptySiblingNotLeaked ==
  OneChildEmpty =>
    \A i \in CallIdx("Next") :
      binOut.calls[i].batch # <<>> => GivenBack(i)

\* initOutputs has run and got as far as assigning the output fields.
Initialised == bin.once /\ binIn.set /\ ~bin.seriesNil

\* The many-side and the one-side of the join as the matching names them.
HighSeries ==
  IF bin.matching.Card = "CardOneToMany" THEN binIn.rhs.series
  ELSE binIn.lhs.series
LowSeries ==
  IF bin.matching.Card = "CardOneToMany" THEN binIn.lhs.series
  ELSE binIn.rhs.series

\* The join signature of a series: its labels named by on(L), or all its
\* labels but those of ignoring(L) and __name__.
JoinSig(metric) ==
  IF bin.matching.On
  THEN {p \in metric : p[1] \in Range(bin.matching.MatchingLabels)}
  ELSE {p \in metric :
          p[1] \notin Range(bin.matching.MatchingLabels) \cup {MetricName}}

\* The h-th high-cardinality series has a low-cardinality series of the same
\* signature.
Partnered(h) ==
  \E l \in DOMAIN LowSeries : JoinSig(LowSeries[l]) = JoinSig(HighSeries[h])

\* The output id of the h-th high-cardinality series (NilID when absent).
OutputIDOf(h) == bin.highCardOutputIndex[h - 1]

\* C12: after initialisation the output series list has exactly one entry
\* for each high-cardinality series whose join signature also occurs on the
\* low-cardinality side, and no other entry; the high-cardinality side is
\* lhs unless the matching is one-to-many, when it is rhs.
C12_OneOutputPerPartneredHighSeries ==
  Initialised =>
    /\ DOMAIN bin.highCardOutputIndex = 0..(Len(HighSeries) - 1)
    /\ \A h \in DOMAIN HighSeries :
         /\ Partnered(h) <=> OutputIDOf(h) # NilID
         /\ Partnered(h) => OutputIDOf(h) \in 0..(Len(bin.series) - 1)
    /\ \A h1, h2 \in DOMAIN HighSeries :
         (Partnered(h1) /\ Partnered(h2) /\ h1 # h2) =>
           OutputIDOf(h1) # OutputIDOf(h2)
    /\ Len(bin.series) = Cardinality({h \in DOMAIN HighSeries : Partnered(h)})

\* C12 witness: a one-to-many operator whose rhs has two series and whose
\* lhs has one has been initialised with two output series.
C12_Witness ==
  /\ Initialised
  /\ bin.matching.Card = "CardOneToMany"
  /\ Len(binIn.lhs.series) = 1
  /\ Len(binIn.rhs.series) = 2
  /\ Len(bin.series) = 2

\* The matching has no group_left/group_right modifier.
NoGroupModifier == bin.matching.Card = "CardOneToOne"

\* The labels of a series restricted by the matching: only the names of
\* on(L) kept, or the names of ignoring(L) removed, and __name__ removed.
RestrictedLabels(metric) == Del(JoinSig(metric), {MetricName})

\* The labels Series() reports for the h-th high-cardinality series.
OutputLabelsOf(h) == bin.series[OutputIDOf(h) + 1]

\* C13: with on(L) or ignoring(L) and no group modifier, the label set of
\* every output series equals the labels of its high-cardinality input
\* series restricted by L, with __name__ removed.
C13_OutputLabelsRestrictedByMatching ==
  (Initialised /\ NoGroupModifier) =>
    \A h \in DOMAIN HighSeries :
      OutputIDOf(h) # NilID => OutputLabelsOf(h) = RestrictedLabels(HighSeries[h])

\* The matching is many-to-one (group_left) or one-to-many (group_right).
GroupModifier == bin.matching.Card \in {"CardManyToOne", "CardOneToMany"}

\* The labels a grouped join must report for high-cardinality series h
\* matched with low-cardinality series l: those of h without __name__, plus
\* the labels group_left(X)/group_right(X) lists, taken from l.
GroupedLabels(h, l) ==
  Del(HighSeries[h], {MetricName})
    \cup Keep(LowSeries[l], Range(bin.matching.Include))

\* C14: for a many-to-one or one-to-many join with group_left(X) or
\* group_right(X), every output series carries the labels of its
\* high-cardinality input series plus the listed extra labels X taken from
\* its matching low-cardinality series.
C14_GroupedOutputCarriesExtraLabels ==
  (Initialised /\ GroupModifier) =>
    \A h \in DOMAIN HighSeries :
      OutputIDOf(h) # NilID =>
        \E l \in DOMAIN LowSeries :
          /\ JoinSig(LowSeries[l]) = JoinSig(HighSeries[h])
          /\ OutputLabelsOf(h) = GroupedLabels(h, l)

HasMetricName(lbls) == \E p \in lbls : p[1] = MetricName

\* C15: no series in the result of Series() carries the label __name__,
\* whatever the matching (on or ignoring, any label list, also one naming
\* __name__, any cardinality) and whatever the two input series lists.
C15_NoMetricNameInOutput ==
  /\ \A i \in DOMAIN bin.series : ~HasMetricName(bin.series[i])
  /\ binOut.op = "Series" =>
       \A i \in DOMAIN binOut.series : ~HasMetricName(binOut.series[i])

\* C15 witness: Series() returned two series for on(__name__, job) over
\* inputs that carry __name__.
C15_Witness ==
  /\ binOut.op = "Series"
  /\ binOut.res = "series"
  /\ bin.matching.On
  /\ MetricName \in Range(bin.matching.MatchingLabels)
  /\ Len(binOut.series) = 2
  /\ \A h \in DOMAIN HighSeries : HasMetricName(HighSeries[h])

\* Two or more series of a share a join signature that also occurs in b.
SharedSignature(a, b) ==
  \E i, j \in DOMAIN a :
    /\ i # j
    /\ JoinSig(a[i]) = JoinSig(a[j])
    /\ \E k \in DOMAIN b : JoinSig(b[k]) = JoinSig(a[i])

\* The last call ran initOutputs and both children's Series succeeded.
InitRanOnSeries ==
  /\ binIn.set
  /\ CallIdx("Series") # {}
  /\ \A i \in CallIdx("Series") : binOut.calls[i].err = "nil"
  /\ Cardinality(CallIdx("Series")) = 2

\* C16: with one-to-one matching, if two or more series of one side share a
\* join signature that also occurs on the other side, the call that
\* initialises the operator fails with an error and no series list is
\* produced.
C16_ManyToManyRejected ==
  ( /\ InitRanOnSeries
    /\ NoGroupModifier
    /\ \/ SharedSignature(HighSeries, LowSeries)
       \/ SharedSignature(LowSeries, HighSeries) )
  => /\ binOut.err # "nil"
     /\ bin.seriesNil

\* In the last Next call both children returned batches, and at some index
\* the lhs and the rhs step vector carry different timestamps.
Misaligned ==
  /\ binOut.op = "Next"
  /\ Len(binOut.calls) >= 2
  /\ NoChildNextError
  /\ \E i \in DOMAIN binOut.calls[1].batch \cap DOMAIN binOut.calls[2].batch :
       binOut.calls[1].batch[i].T # binOut.calls[2].batch[i].T

\* C17: if the i-th step vectors of the lhs and rhs batches received in one
\* Next call carry different timestamps, Next returns an error and emits no
\* combined step vector.
C17_MisalignedStepsRejected ==
  Misaligned =>
    /\ binOut.err # "nil"
    /\ binOut.batch = <<>>

\* ------------------------------------------------------------------------
\* Properties of concurrent Series and Next
\* ------------------------------------------------------------------------
\* Caller p has gone through once.Do and has read the operator's fields.
HasRead(p) ==
  /\ raceRet[p].set
  /\ p = "Next" => ~ReturnsBeforeInit(raceLoc[p].l, raceLoc[p].r)

\* Caller p is past once.Do: about to read the operator's fields, or it has.
PastDo(p) == racePc[p] = "ret" \/ HasRead(p)

\* The single initialisation ran to its end without error or panic.
InitSucceeded ==
  /\ race.pending.ran
  /\ race.pending.err = "nil"
  /\ race.pending.panic = "nil"

\* The single-fire primitive alone: the body is entered at most once, and a
\* caller past once.Do finds the latch set, the body ended and the fields as
\* the body left them.
OnceFiresOnceBeforeReads ==
  /\ race.inits <= 1
  /\ \A p \in Callers :
       PastDo(p) =>
         /\ race.inits = 1
         /\ race.o.once
         /\ \A q \in Callers : racePc[q] # "body"
         /\ race.o = race.pending.o
  /\ \A p \in Callers : HasRead(p) => raceRet[p].saw = race.pending.o

\* C18: when Series and the first Next run concurrently, under every
\* interleaving the body of the initialisation runs at most once, and once
\* before any caller gets past once.Do; a caller past once.Do finds the
\* latch set and the body ended, and what it reads of the operator (series
\* list, join indices, table) is what that single initialisation left; both
\* callers observe the initialisation's effect: a caller returns a result
\* without error, or uses the table, only when the initialisation succeeded,
\* and otherwise reports the initialisation's error.
C18_InitialisedOnceBeforeAnyRead ==
  /\ OnceFiresOnceBeforeReads
  /\ \A p \in Callers :
       HasRead(p) =>
         /\ raceRet[p].out.panic # "nil pointer dereference"
         /\ IF InitSucceeded
            THEN raceRet[p].out.err = "nil"
            ELSE raceRet[p].out.err # "nil"

\* ------------------------------------------------------------------------
\* Properties of the join's output ids
\* ------------------------------------------------------------------------
\* The orders in which join could have iterated its map for the inputs the
\* initialisation met.
PossibleOrders == Orders(JoinKeys(bin.matching, binIn.lhs.series, binIn.rhs.series))

\* What another operator built over the same inputs computes when its map is
\* iterated in order ord.
OtherRun(ord) == hashAndJoin(bin.matching, HighSeries, LowSeries, ord)

SameOutputs(j) ==
  /\ j.panic = "nil"
  /\ SeriesOf(j.outputIndex) = bin.series
  /\ j.high = bin.highCardOutputIndex
  /\ j.low = bin.lowCardOutputIndex

\* C19: two operators built with the same matching over the same lhs and rhs
\* series lists produce the same Series() list in the same order and the
\* same assignment of input ids to output ids.
C19_OutputDeterministic ==
  Initialised => \A ord \in PossibleOrders : SameOutputs(OtherRun(ord))

\* The output ids highCardOutputIndex holds.
DefinedIDs ==
  {bin.highCardOutputIndex[h] : h \in DOMAIN bin.highCardOutputIndex} \ {NilID}

\* The label set join emits for the h-th high-cardinality series.
EmittedLabels(h) ==
  signature(HighSeries[h], ~bin.matching.On, bin.matching.MatchingLabels, TRUE).lbls

\* C20: after initialisation the defined entries of highCardOutputIndex are
\* pairwise distinct and are exactly 0..len(Series())-1, every such id
\* occurs in exactly one list of lowCardOutputIndex (once), Series()[id] is
\* the label set emitted for that id, and outputCache has length
\* len(Series()).
C20_OutputIDsDenseAndUnique ==
  Initialised =>
    /\ DefinedIDs = 0..(Len(bin.series) - 1)
    /\ \A h1, h2 \in DOMAIN bin.highCardOutputIndex :
         (h1 # h2 /\ bin.highCardOutputIndex[h1] # NilID) =>
           bin.highCardOutputIndex[h1] # bin.highCardOutputIndex[h2]
    /\ \A id \in DefinedIDs :
         /\ Cardinality({l \in DOMAIN bin.lowCardOutputIndex :
                           id \in Range(bin.lowCardOutputIndex[l])}) = 1
         /\ \A l \in DOMAIN bin.lowCardOutputIndex :
              Cardinality({k \in DOMAIN bin.lowCardOutputIndex[l] :
                             bin.lowCardOutputIndex[l][k] = id}) <= 1
    /\ \A l \in DOMAIN bin.lowCardOutputIndex :
         Range(bin.lowCardOutputIndex[l]) \subseteq DefinedIDs
    /\ \A h \in DOMAIN HighSeries :
         OutputIDOf(h) # NilID => bin.series[OutputIDOf(h) + 1] = EmittedLabels(h)
    /\ bin.outputCache = Len(bin.series)

\* C20 witness: an initialisation that joined two signatures, each with its
\* own low-cardinality series, and assigned the ids 0 and 1.
C20_Witness ==
  /\ Initialised
  /\ Len(bin.series) = 2
  /\ Cardinality({l \in DOMAIN bin.lowCardOutputIndex :
                    bin.lowCardOutputIndex[l] # <<>>}) = 2

\* ------------------------------------------------------------------------
\* Properties of the join's index arrays and of failed initialisations
\* ------------------------------------------------------------------------
\* C21: for lhs and rhs series lists of any sizes, the initialisation
\* completes without an out-of-bounds access: once both children's Series
\* have succeeded the output fields are assigned, highCardOutputIndex has one
\* slot per high-cardinality input id and lowCardOutputIndex one slot per
\* low-cardinality input id.
C21_JoinStaysInsideItsArrays ==
  InitRanOnSeries =>
    /\ Initialised
    /\ DOMAIN bin.highCardOutputIndex = 0..(Len(HighSeries) - 1)
    /\ DOMAIN bin.lowCardOutputIndex = 0..(Len(LowSeries) - 1)

\* The list of output ids of the l-th low-cardinality series.
LowOutputsOf(l) == bin.lowCardOutputIndex[l - 1]

\* The l-th low-cardinality series has a high-cardinality series of the
\* same signature.
LowPartnered(l) ==
  \E h \in DOMAIN HighSeries : JoinSig(HighSeries[h]) = JoinSig(LowSeries[l])

\* C22: after initialisation, for every high-cardinality series h and
\* low-cardinality series l, highCardOutputIndex[h] is defined and is a
\* member of lowCardOutputIndex[l] if and only if h and l have the same join
\* signature; a high-cardinality series with no partner has an absent entry
\* and a low-cardinality series with no partner an empty list.
C22_JoinIndexCompleteAndExact ==
  Initialised =>
    /\ \A h \in DOMAIN HighSeries :
         /\ (h - 1) \in DOMAIN bin.highCardOutputIndex
         /\ ~Partnered(h) => OutputIDOf(h) = NilID
    /\ \A l \in DOMAIN LowSeries :
         /\ (l - 1) \in DOMAIN bin.lowCardOutputIndex
         /\ ~LowPartnered(l) => LowOutputsOf(l) = <<>>
         /\ \A h \in DOMAIN HighSeries :
              (OutputIDOf(h) # NilID /\ OutputIDOf(h) \in Range(LowOutputsOf(l)))
                <=> JoinSig(HighSeries[h]) = JoinSig(LowSeries[l])

\* In the last Next call, on an initialised operator, the children returned
\* non-empty batches of different lengths.
DifferentLengths ==
  /\ binOut.op = "Next"
  /\ bin.table
  /\ Len(binOut.calls) >= 2
  /\ NoChildNextError
  /\ binOut.calls[1].batch # <<>>
  /\ binOut.calls[2].batch # <<>>
  /\ Len(binOut.calls[1].batch) # Len(binOut.calls[2].batch)

\* C23: when the two children return non-empty batches of different
\* lengths, Next never reads rhs at an index at or beyond len(rhs) (it does
\* not panic), and every rhs step vector, also one beyond len(lhs), is
\* returned to the rhs pool.
C23_UnequalBatchesHandled ==
  DifferentLengths =>
    /\ binOut.panic = "nil"
    /\ \A k \in DOMAIN binOut.calls[2].batch :
         PoolOp("rhs", "PutStepVector", binOut.calls[2].batch[k].owner,
                binOut.calls[2].batch[k].idx) \in Ops

\* The initialisation failed in an earlier call: the latch is set, there is
\* no table, and the last call did not run the body (it called no child's
\* Series).
InitFailedEarlier ==
  /\ bin.once
  /\ ~bin.table
  /\ binOut.op \in {"Series", "Next"}
  /\ CallIdx("Series") = {}

\* C24: if the initialisation failed on the first Series or Next call, every
\* later Series and Next call reports an error: none returns a successful
\* result and no later Next runs the per-step operation without a table.
C24_FailedInitStaysFailed ==
  InitFailedEarlier =>
    /\ binOut.err # "nil"
    /\ binOut.panic = "nil"

\* ------------------------------------------------------------------------
\* Properties of the operator's own pool
\* ------------------------------------------------------------------------
\* The positions in the pool operations of a call at which SetStepSize is
\* called on the operator's own pool, and at which a batch or a step vector
\* is taken from it.
SetStepSizeAt(out) ==
  {i \in DOMAIN out.poolOps :
     out.poolOps[i].pool = "own" /\ out.poolOps[i].op = "SetStepSize"}
OwnTakenAt(out) ==
  {i \in DOMAIN out.poolOps :
     /\ out.poolOps[i].pool = "own"
     /\ out.poolOps[i].op \in {"GetVectorBatch", "GetStepVector"}}

\* The number of series of the high-cardinality side the initialisation met.
HighCardCount(m, in) == Len(HighCardSide(m, in.lhs.series, in.rhs.series))

\* C25: over any sequence of Series and Next calls, a call invokes
\* SetStepSize on the operator's own pool only while it runs the
\* initialisation (the latch goes from unset to set in that call, and never
\* back, so at most once), once, with the number of series of the
\* high-cardinality side, and before anything it takes from that pool; and
\* nothing is taken from the pool by a call that leaves the latch unset.
C25_SetStepSizeOnlyDuringInit ==
  [][ /\ bin.once => bin'.once
      /\ SetStepSizeAt(binOut') # {} =>
           /\ ~bin.once
           /\ bin'.once
           /\ Cardinality(SetStepSizeAt(binOut')) = 1
           /\ \A i \in SetStepSizeAt(binOut') :
                /\ binOut'.poolOps[i].idx = HighCardCount(bin'.matching, binIn')
                /\ bin'.stepSize = binOut'.poolOps[i].idx
                /\ \A k \in OwnTakenAt(binOut') : i < k
      /\ OwnTakenAt(binOut') # {} => bin'.once ]_vars

\* C25 witness: a Next call ran the initialisation over a high-cardinality
\* side of two series, called SetStepSize(2) and then took its output batch
\* and two step vectors from the pool.
C25_Witness ==
  /\ binOut.op = "Next"
  /\ Cardinality(SetStepSizeAt(binOut)) = 1
  /\ bin.stepSize = 2
  /\ Cardinality(OwnTakenAt(binOut)) = 3
  /\ binOut.res = "batch"

====
